---- MODULE Spec2Model ----
(***************************************************************************)
(* Model of the proctrack/cray_aries plugin (proctrack_cray_aries.c), as   *)
(* built with HAVE_NATIVE_CRAY: the creation handshake between             *)
(* proctrack_p_create and _create_container_thread, _end_container_thread, *)
(* proctrack_p_add with its detach-and-retry, proctrack_p_signal,          *)
(* proctrack_p_destroy, proctrack_p_wait, proctrack_p_get_pids and fini.   *)
(*                                                                         *)
(* Caller threads run plugin calls statement by statement; worker threads  *)
(* run _create_container_thread.  pthread mutexes are owner cells, the     *)
(* condition variable is its set of waiters; pthread_cond_signal wakes one *)
(* waiter if there is one and is lost otherwise.  Wake-ups happen only on  *)
(* a signal.  The job_* calls of libjob are the environment: they act on   *)
(* the kernel membership map and may fail.                                 *)
(***************************************************************************)
EXTENDS Integers, FiniteSets, Sequences, TLC

\* ---------------------------------------------------------------- bounds
MaxWorkers == 2      \* worker threads that may be spawned in one run
MaxJids    == 2      \* container ids the kernel hands out in one run
MaxCalls   == 3      \* plugin calls begun in one run

\* ------------------------------------------------------------- constants
SLURM_SUCCESS == 0
SLURM_ERROR   == -1
JidFail       == -1  \* (jid_t) -1
SIGKILL       == 9
OtherSig      == SIGKILL + 1   \* some signal that is not SIGKILL
SelfPid       == 100 \* the process that runs the plugin calls

Callers  == {101, 102}          \* threads of the process calling the plugin
Workers  == 1..MaxWorkers       \* pthread_t values of creation threads
Steps    == {1, 2}              \* stepd_step_rec_t records
Pids     == {SelfPid, 200}      \* pids handed to proctrack_p_add
Signals  == {SIGKILL, OtherSig}
Free     == 0                   \* an unlocked mutex
ForeignJid == MaxJids + 1       \* a container that exists when the run starts
Entities == Pids \cup Workers   \* what the kernel can hold in a container

VARIABLES
    proctrack_forked, \* the global flag read by create and add
    active,           \* caller threads that issue calls in this run
    cont_id,          \* step->cont_id of every step record
    threadid,         \* static pthread_t threadid
    thread_mutex,     \* owner of thread_mutex, or Free
    notify_mutex,     \* owner of notify_mutex, or Free
    waiters,          \* threads blocked in slurm_cond_wait(&notify, ...)
    wpc,              \* position of every worker thread
    warg,             \* the step a worker was started with
    joined,           \* workers on which pthread_join has returned
    wlog,             \* what every worker did: the result of its job_create,
                      \* the signals it sent, who woke it from its wait
    nworkers,         \* worker threads created so far
    member,           \* kernel: container of every pid / worker thread, 0 = none
    njids,            \* kernel: container ids handed out so far
    pc,               \* position of every caller thread
    call,             \* the running (or last returned) call of every caller
    ncalls,           \* calls begun so far
    finalized,        \* fini has destroyed the mutexes and the condition
    aborted           \* the process has died (fatal() or a crash)

vars == <<proctrack_forked, active, cont_id, threadid, thread_mutex,
          notify_mutex, waiters, wpc, warg, joined, wlog, nworkers, member,
          njids, pc, call, ncalls, finalized, aborted>>

confVars   == <<proctrack_forked, active>>
lockVars   == <<thread_mutex, notify_mutex, waiters>>
workerVars == <<wpc, warg, joined, wlog, nworkers>>
kernelVars == <<member, njids>>
endVars    == <<finalized, aborted>>

\* ------------------------------------------------------- kernel (libjob)
\* job_getjid(pid): the container of pid, (jid_t)-1 if it has none
GetJid(p) == IF member[p] = 0 THEN JidFail ELSE member[p]

\* proctrack_p_find
Find(p) == IF GetJid(p) = JidFail THEN 0 ELSE GetJid(p)

\* has_pid as the build without HAVE_NATIVE_CRAY has it: always true
HasPidM(c, p) == TRUE

\* has_pid with the comparison of line 376 turned round
HasPidInv(c, p) ==
    IF GetJid(p) = JidFail THEN FALSE
    ELSE IF GetJid(p) = c THEN FALSE
    ELSE TRUE

\* proctrack_p_has_pid
HasPid(c, p) ==
    IF GetJid(p) = JidFail THEN FALSE
    ELSE IF GetJid(p) # c THEN FALSE
    ELSE TRUE

\* a container exists while it has a member ("Empty containers are not valid")
JidLive(j) == j \notin {0, JidFail} /\ \E e \in Entities : member[e] = j

\* job_create(0, uid, 0) called by entity e: the new id, or (jid_t)-1
CreateResults == IF njids < MaxJids THEN {njids + 1, JidFail} ELSE {JidFail}

\* job_attachpid(pid, jid)
AttachOutcomes(p, j) ==
    (IF JidLive(j) /\ member[p] = 0 THEN {"ok"} ELSE {}) \cup {"EINVAL", "EOTHER"}

\* job_detachpid(pid)
DetachOutcomes(p) == (IF member[p] # 0 THEN {"ok"} ELSE {}) \cup {"fail"}

\* job_killjid(jid, sig)
KillOutcomes == {"ok", "ENODATA", "EBADF", "EOTHER"}

\* job_waitjid(jid, &status, 0)
WaitOutcomes == {"ok", "fail"}

\* the members of container j
MembersOf(j) == {e \in Entities : j # 0 /\ member[e] = j}

\* job_getpidcnt(jid): the number of members, or -1
PidCntResults(j) == {Cardinality(MembersOf(j)), -1}

\* job_getpidlist(jid, p, bufsize): the members, or -1 with ENODATA when
\* there is none, or -1 with another errno
PidListOutcomes(j) ==
    (IF MembersOf(j) = {} THEN {"ENODATA"} ELSE {"list"}) \cup {"EOTHER"}

\* ------------------------------------------------------------ primitives
\* slurm_cond_signal(&notify): the waiter sets that can result
SignalResults == IF waiters = {} THEN {{}} ELSE {waiters \ {x} : x \in waiters}

\* the record of the workers after a signal that leaves nw waiting
Woken(nw, by) ==
    [w \in Workers |-> IF w \in waiters \ nw
                         THEN [wlog[w] EXCEPT !.woke = by]
                         ELSE wlog[w]]

NoCall == [op |-> "none", step |-> 0, pid |-> 0, id |-> 0, sig |-> 0,
           count |-> 0, nAttach |-> 0, nDetach |-> 0, nKill |-> 0,
           nWait |-> 0, a1 |-> "none", a2 |-> "none", det |-> "none",
           hp |-> "none", seen |-> 0, kres |-> "none", rc |-> SLURM_SUCCESS,
           cont0 |-> 0, cnt |-> 0, lres |-> "none", out |-> "unset",
           npids |-> 0, pids |-> {}]

Goto(t, l)      == pc' = [pc EXCEPT ![t] = l]
Return(t, r)    == /\ pc' = [pc EXCEPT ![t] = "ret"]
                   /\ call' = [call EXCEPT ![t].rc = r]
CanCall(t)      == /\ ~aborted /\ ~finalized
                   /\ t \in active
                   /\ pc[t] \in {"idle", "ret"}
                   /\ ncalls < MaxCalls
Running(t, l)   == ~aborted /\ pc[t] = l

\* --------------------------------------------------------------- Init
InitCommon ==
    /\ proctrack_forked \in BOOLEAN
    /\ \E j \in {0, ForeignJid} :
         member = [e \in Entities |-> IF e \in Pids \ {SelfPid} THEN j ELSE 0]
    /\ cont_id \in {[s \in Steps |-> 0],
                    [s \in Steps |-> IF s = 1 /\ member[200] # 0
                                       THEN member[200] ELSE 0]}
    /\ threadid = 0
    /\ thread_mutex = Free
    /\ notify_mutex = Free
    /\ waiters = {}
    /\ wpc = [w \in Workers |-> "unborn"]
    /\ warg = [w \in Workers |-> 0]
    /\ joined = {}
    /\ wlog = [w \in Workers |-> [jid |-> 0, nsig |-> 0, woke |-> "none"]]
    /\ nworkers = 0
    /\ njids = 0
    /\ pc = [t \in Callers |-> "idle"]
    /\ call = [t \in Callers |-> NoCall]
    /\ ncalls = 0
    /\ finalized = FALSE
    /\ aborted = FALSE

Init == InitCommon /\ active = Callers

\* one caller thread issues the calls one after the other
InitSeq == InitCommon /\ active = {101}

\* ------------------------------------------- _create_container_thread
\* line 96: step->cont_id = (uint64_t)job_create(0, step->uid, 0)
WorkerJobCreate(w) ==
    /\ ~aborted /\ wpc[w] = "w_create"
    /\ \E j \in CreateResults :
         /\ cont_id' = [cont_id EXCEPT ![warg[w]] = j]
         /\ IF j = JidFail
              THEN UNCHANGED kernelVars
              ELSE /\ member' = [member EXCEPT ![w] = j]
                   /\ njids' = njids + 1
    /\ wpc' = [wpc EXCEPT ![w] = "w_lock"]
    /\ wlog' = [wlog EXCEPT ![w].jid = IF cont_id'[warg[w]] = JidFail
                                         THEN JidFail ELSE njids']
    /\ UNCHANGED <<confVars, threadid, lockVars, warg, joined, nworkers,
                   pc, call, ncalls, endVars>>

\* line 99: slurm_mutex_lock(&notify_mutex)
WorkerLock(w) ==
    /\ ~aborted /\ wpc[w] = "w_lock"
    /\ notify_mutex = Free
    /\ notify_mutex' = w
    /\ wpc' = [wpc EXCEPT ![w] = "w_signal"]
    /\ UNCHANGED <<confVars, cont_id, threadid, thread_mutex, waiters, warg, wlog,
                   joined, nworkers, kernelVars, pc, call, ncalls, endVars>>

\* line 102: slurm_cond_signal(&notify)
WorkerSignal(w) ==
    /\ ~aborted /\ wpc[w] = "w_signal"
    /\ \E nw \in SignalResults :
         /\ waiters' = nw
         /\ wlog' = [Woken(nw, "handshake") EXCEPT ![w].nsig = @ + 1]
    /\ wpc' = [wpc EXCEPT ![w] = "w_check"]
    /\ UNCHANGED <<confVars, cont_id, threadid, thread_mutex, notify_mutex,
                   warg, joined, nworkers, kernelVars, pc, call, ncalls,
                   endVars>>

\* lines 109-117 without the slurm_cond_wait of line 116
WorkerCheckM(w) ==
    /\ ~aborted /\ wpc[w] = "w_check"
    /\ wpc' = [wpc EXCEPT ![w] = "w_unlock"]
    /\ UNCHANGED <<confVars, cont_id, threadid, lockVars, warg, wlog, joined,
                   nworkers, kernelVars, pc, call, ncalls, endVars>>

\* lines 109-117: on failure go on to the unlock, else slurm_cond_wait
WorkerCheck(w) ==
    /\ ~aborted /\ wpc[w] = "w_check"
    /\ IF cont_id[warg[w]] = JidFail
         THEN /\ wpc' = [wpc EXCEPT ![w] = "w_unlock"]
              /\ UNCHANGED lockVars
         ELSE /\ wpc' = [wpc EXCEPT ![w] = "w_wait"]
              /\ notify_mutex' = Free
              /\ waiters' = waiters \cup {w}
              /\ UNCHANGED thread_mutex
    /\ UNCHANGED <<confVars, cont_id, threadid, warg, wlog, joined, nworkers,
                   kernelVars, pc, call, ncalls, endVars>>

\* line 116 returning: woken by a signal, the mutex is taken again
WorkerWake(w) ==
    /\ ~aborted /\ wpc[w] = "w_wait"
    /\ w \notin waiters
    /\ notify_mutex = Free
    /\ notify_mutex' = w
    /\ wpc' = [wpc EXCEPT ![w] = "w_unlock"]
    /\ UNCHANGED <<confVars, cont_id, threadid, thread_mutex, waiters, warg, wlog,
                   joined, nworkers, kernelVars, pc, call, ncalls, endVars>>

\* line 118: slurm_mutex_unlock(&notify_mutex)
WorkerUnlock(w) ==
    /\ ~aborted /\ wpc[w] = "w_unlock"
    /\ notify_mutex' = Free
    /\ wpc' = [wpc EXCEPT ![w] = "w_return"]
    /\ UNCHANGED <<confVars, cont_id, threadid, thread_mutex, waiters, warg, wlog,
                   joined, nworkers, kernelVars, pc, call, ncalls, endVars>>

\* line 120: return NULL; the thread ends and leaves its container
WorkerReturn(w) ==
    /\ ~aborted /\ wpc[w] = "w_return"
    /\ wpc' = [wpc EXCEPT ![w] = "exited"]
    /\ member' = [member EXCEPT ![w] = 0]
    /\ UNCHANGED <<confVars, cont_id, threadid, lockVars, warg, wlog, joined,
                   nworkers, njids, pc, call, ncalls, endVars>>

\* ------------------------------------------------- proctrack_p_create
\* line 168 taking the failure value for "no container yet"
HasContIdM(s) == cont_id[s] \notin {0, JidFail}

\* line 168: the step already has a container id
HasContId(s) == cont_id[s] # 0

\* lines 160-178, 214-221: the call, the cont_id test and the forked path
ProctrackCreate(t, s) ==
    /\ CanCall(t)
    /\ ncalls' = ncalls + 1
    /\ call' = [call EXCEPT ![t] = [NoCall EXCEPT !.op = "create", !.step = s,
                                                  !.cont0 = cont_id[s]]]
    /\ IF HasContId(s)
         THEN /\ pc' = [pc EXCEPT ![t] = "ret"]
              /\ UNCHANGED <<cont_id, kernelVars>>
         ELSE IF proctrack_forked
           THEN /\ \E j \in CreateResults :
                     /\ cont_id' = [cont_id EXCEPT ![s] = j]
                     /\ IF j = JidFail
                          THEN UNCHANGED kernelVars
                          ELSE /\ member' = [member EXCEPT ![SelfPid] = j]
                               /\ njids' = njids + 1
                /\ pc' = [pc EXCEPT ![t] = "ret"]
           ELSE /\ pc' = [pc EXCEPT ![t] = "c_lock_thread"]
                /\ UNCHANGED <<cont_id, kernelVars>>
    /\ UNCHANGED <<confVars, threadid, lockVars, workerVars, endVars>>

\* line 193 without the test: never wait for the thread that is there
HadThreadM == FALSE

\* line 193: if (threadid), a creation thread is recorded
HadThread == threadid # 0

\* lines 192-193: slurm_mutex_lock(&thread_mutex); if (threadid)
CreateLockThread(t) ==
    /\ Running(t, "c_lock_thread")
    /\ thread_mutex = Free
    /\ thread_mutex' = t
    /\ call' = [call EXCEPT ![t].seen = threadid]
    /\ IF HadThread THEN Goto(t, "c_had_lock") ELSE Goto(t, "c_lock_notify")
    /\ UNCHANGED <<confVars, cont_id, threadid, notify_mutex, waiters,
                   workerVars, kernelVars, ncalls, endVars>>

\* line 195: slurm_mutex_lock(&notify_mutex) with a thread already there
CreateHadLock(t) ==
    /\ Running(t, "c_had_lock")
    /\ notify_mutex = Free
    /\ notify_mutex' = t
    /\ Goto(t, "c_had_condwait")
    /\ UNCHANGED <<confVars, cont_id, threadid, thread_mutex, waiters,
                   workerVars, kernelVars, call, ncalls, endVars>>

\* line 196: slurm_cond_wait(&notify, &notify_mutex)
CreateHadCondWait(t) ==
    /\ Running(t, "c_had_condwait")
    /\ notify_mutex' = Free
    /\ waiters' = waiters \cup {t}
    /\ Goto(t, "c_had_wait")
    /\ UNCHANGED <<confVars, cont_id, threadid, thread_mutex, workerVars,
                   kernelVars, call, ncalls, endVars>>

\* line 206: slurm_mutex_lock(&notify_mutex); reached from line 193 when no
\* thread was there, or through lines 196-198 when the wait of line 196 is
\* over (woken, notify_mutex taken again and given back at line 197)
CreateLockNotify(t) ==
    /\ ~aborted
    /\ \/ pc[t] = "c_lock_notify"
       \/ pc[t] = "c_had_wait" /\ t \notin waiters
    /\ notify_mutex = Free
    /\ notify_mutex' = t
    /\ Goto(t, "c_spawn")
    /\ UNCHANGED <<confVars, cont_id, threadid, thread_mutex, waiters,
                   workerVars, kernelVars, call, ncalls, endVars>>

\* line 207: slurm_thread_create(&threadid, _create_container_thread, step)
CreateSpawn(t) ==
    /\ Running(t, "c_spawn")
    /\ nworkers < MaxWorkers
    /\ nworkers' = nworkers + 1
    /\ threadid' = nworkers + 1
    /\ wpc' = [wpc EXCEPT ![nworkers + 1] = "w_create"]
    /\ warg' = [warg EXCEPT ![nworkers + 1] = call[t].step]
    /\ Goto(t, "c_condwait")
    /\ UNCHANGED <<confVars, cont_id, lockVars, joined, wlog,
                   kernelVars, call,
                   ncalls, endVars>>

\* line 208 as an unlock that does not wait for the signal
CreateCondWaitM(t) ==
    /\ Running(t, "c_condwait")
    /\ notify_mutex' = Free
    /\ Goto(t, "c_wait")
    /\ UNCHANGED <<confVars, cont_id, threadid, thread_mutex, waiters,
                   workerVars, kernelVars, call, ncalls, endVars>>

\* line 208: slurm_cond_wait(&notify, &notify_mutex)
CreateCondWait(t) ==
    /\ Running(t, "c_condwait")
    /\ notify_mutex' = Free
    /\ waiters' = waiters \cup {t}
    /\ Goto(t, "c_wait")
    /\ UNCHANGED <<confVars, cont_id, threadid, thread_mutex, workerVars,
                   kernelVars, call, ncalls, endVars>>

\* line 208 returning
CreateWake(t) ==
    /\ Running(t, "c_wait")
    /\ t \notin waiters
    /\ notify_mutex = Free
    /\ notify_mutex' = t
    /\ Goto(t, "c_unlock")
    /\ UNCHANGED <<confVars, cont_id, threadid, thread_mutex, waiters,
                   workerVars, kernelVars, call, ncalls, endVars>>

\* lines 209-221 without the unlock of thread_mutex of line 210
CreateUnlockM(t) ==
    /\ Running(t, "c_unlock")
    /\ notify_mutex' = Free
    /\ Return(t, SLURM_SUCCESS)
    /\ UNCHANGED <<confVars, cont_id, threadid, thread_mutex, waiters,
                   workerVars, kernelVars, ncalls, endVars>>

\* lines 209-221: both unlocks and return SLURM_SUCCESS
CreateUnlock(t) ==
    /\ Running(t, "c_unlock")
    /\ notify_mutex' = Free
    /\ thread_mutex' = Free
    /\ Return(t, SLURM_SUCCESS)
    /\ UNCHANGED <<confVars, cont_id, threadid, waiters, workerVars,
                   kernelVars, ncalls, endVars>>

\* ---------------------------------------------- _end_container_thread
\* where the caller of _end_container_thread goes on
AfterRetire(op) ==
    CASE op = "add"    -> "a_stamp"
      [] op = "signal" -> "ret"
      [] op = "fini"   -> "f_destroy"
      [] OTHER         -> "ret"

\* line 125: if (threadid), read without a lock
RetireCheck(t) ==
    /\ Running(t, "r_check")
    /\ IF threadid # 0
         THEN Goto(t, "r_lock_thread")
         ELSE Goto(t, AfterRetire(call[t].op))
    /\ UNCHANGED <<confVars, cont_id, threadid, lockVars, workerVars,
                   kernelVars, call, ncalls, endVars>>

\* line 127: slurm_mutex_lock(&thread_mutex)
RetireLockThread(t) ==
    /\ Running(t, "r_lock_thread")
    /\ thread_mutex = Free
    /\ thread_mutex' = t
    /\ Goto(t, "r_lock_notify")
    /\ UNCHANGED <<confVars, cont_id, threadid, notify_mutex, waiters,
                   workerVars, kernelVars, call, ncalls, endVars>>

\* line 128: slurm_mutex_lock(&notify_mutex)
RetireLockNotify(t) ==
    /\ Running(t, "r_lock_notify")
    /\ notify_mutex = Free
    /\ notify_mutex' = t
    /\ Goto(t, "r_signal")
    /\ UNCHANGED <<confVars, cont_id, threadid, thread_mutex, waiters,
                   workerVars, kernelVars, call, ncalls, endVars>>

\* lines 129-130: slurm_cond_signal(&notify); slurm_mutex_unlock(&notify_mutex)
RetireSignal(t) ==
    /\ Running(t, "r_signal")
    /\ \E nw \in SignalResults :
         /\ waiters' = nw
         /\ wlog' = Woken(nw, "retire")
    /\ notify_mutex' = Free
    /\ Goto(t, "r_join")
    /\ UNCHANGED <<confVars, cont_id, threadid, thread_mutex, wpc, warg, joined, nworkers,
                   kernelVars, call, ncalls, endVars>>

\* what pthread_join can do with the handle it is given: wait for the thread
\* to end, or, on a handle that names no joinable thread (undefined
\* behaviour), return at once or take the process down
JoinOutcomes(h) ==
    IF h = 0 \/ h \in joined THEN {"return", "abort"}
    ELSE IF wpc[h] = "exited" THEN {"joined"} ELSE {}

\* line 132: pthread_join(threadid, NULL)
RetireJoin(t) ==
    /\ Running(t, "r_join")
    /\ \E o \in JoinOutcomes(threadid) :
         /\ joined' = IF o = "joined" THEN joined \cup {threadid} ELSE joined
         /\ aborted' = (o = "abort")
    /\ Goto(t, "r_clear")
    /\ UNCHANGED <<confVars, cont_id, threadid, lockVars, wpc, warg, wlog, nworkers,
                   kernelVars, call, ncalls, finalized>>

\* lines 133-134: threadid = 0; slurm_mutex_unlock(&thread_mutex)
RetireClear(t) ==
    /\ Running(t, "r_clear")
    /\ threadid' = 0
    /\ thread_mutex' = Free
    /\ Goto(t, AfterRetire(call[t].op))
    /\ UNCHANGED <<confVars, cont_id, notify_mutex, waiters, workerVars,
                   kernelVars, call, ncalls, endVars>>

\* ---------------------------------------------------- proctrack_p_add
\* lines 231-241: the call, count = 0
ProctrackAdd(t, s, p) ==
    /\ CanCall(t)
    /\ ncalls' = ncalls + 1
    /\ pc' = [pc EXCEPT ![t] = "a_attach"]
    /\ call' = [call EXCEPT ![t] = [NoCall EXCEPT !.op = "add", !.step = s,
                                                  !.pid = p]]
    /\ UNCHANGED <<confVars, cont_id, threadid, lockVars, workerVars,
                   kernelVars, endVars>>

\* line 249 with the bound off by one
RetryAllowedM(c) == c < 2

\* line 249: (count < 1), the one retry
RetryAllowed(c) == c < 1

\* lines 247-249, 267-271: job_attachpid unless forked, and the error class
AddAttach(t) ==
    /\ Running(t, "a_attach")
    /\ IF proctrack_forked
         THEN /\ Goto(t, "r_check")
              /\ UNCHANGED <<call, member>>
         ELSE \E o \in AttachOutcomes(call[t].pid, cont_id[call[t].step]) :
              LET c1 == [call[t] EXCEPT !.nAttach = @ + 1,
                                        !.a1 = IF call[t].nAttach = 0 THEN o ELSE @,
                                        !.a2 = IF call[t].nAttach = 0 THEN @ ELSE o]
              IN  /\ member' = IF o = "ok"
                                 THEN [member EXCEPT ![call[t].pid] =
                                                      cont_id[call[t].step]]
                                 ELSE member
                  /\ IF o = "ok"
                       THEN /\ Goto(t, "r_check")
                            /\ call' = [call EXCEPT ![t] = c1]
                       ELSE IF o = "EINVAL" /\ RetryAllowed(call[t].count)
                         THEN /\ Goto(t, "a_haspid")
                              /\ call' = [call EXCEPT ![t] = c1]
                         ELSE /\ pc' = [pc EXCEPT ![t] = "ret"]
                              /\ call' = [call EXCEPT ![t] =
                                            [c1 EXCEPT !.rc = SLURM_ERROR]]
    /\ UNCHANGED <<confVars, cont_id, threadid, lockVars, workerVars, njids,
                   ncalls, endVars>>

\* lines 251-255: proctrack_p_has_pid(step->cont_id, pid)
AddHasPid(t) ==
    /\ Running(t, "a_haspid")
    /\ IF HasPid(cont_id[call[t].step], call[t].pid)
         THEN /\ pc' = [pc EXCEPT ![t] = "ret"]
              /\ call' = [call EXCEPT ![t].hp = "yes", ![t].rc = SLURM_SUCCESS]
         ELSE /\ Goto(t, "a_detach")
              /\ call' = [call EXCEPT ![t].hp = "no"]
    /\ UNCHANGED <<confVars, cont_id, threadid, lockVars, workerVars,
                   kernelVars, ncalls, endVars>>

\* lines 257-266 with the failed detach going on to line 273
AddDetachM(t) ==
    /\ Running(t, "a_detach")
    /\ \E o \in DetachOutcomes(call[t].pid) :
         IF o = "ok"
           THEN /\ member' = [member EXCEPT ![call[t].pid] = 0]
                /\ Goto(t, "a_attach")
                /\ call' = [call EXCEPT ![t].nDetach = @ + 1, ![t].det = o,
                                        ![t].count = @ + 1]
           ELSE /\ UNCHANGED member
                /\ Goto(t, "r_check")
                /\ call' = [call EXCEPT ![t].nDetach = @ + 1, ![t].det = o,
                                        ![t].rc = SLURM_ERROR]
    /\ UNCHANGED <<confVars, cont_id, threadid, lockVars, workerVars, njids,
                   ncalls, endVars>>

\* lines 257-266: job_detachpid(pid), count++ and try_again, or the error
AddDetach(t) ==
    /\ Running(t, "a_detach")
    /\ \E o \in DetachOutcomes(call[t].pid) :
         IF o = "ok"
           THEN /\ member' = [member EXCEPT ![call[t].pid] = 0]
                /\ Goto(t, "a_attach")
                /\ call' = [call EXCEPT ![t].nDetach = @ + 1, ![t].det = o,
                                        ![t].count = @ + 1]
           ELSE /\ UNCHANGED member
                /\ pc' = [pc EXCEPT ![t] = "ret"]
                /\ call' = [call EXCEPT ![t].nDetach = @ + 1, ![t].det = o,
                                        ![t].rc = SLURM_ERROR]
    /\ UNCHANGED <<confVars, cont_id, threadid, lockVars, workerVars, njids,
                   ncalls, endVars>>

\* lines 275-304: job_setapid and the task_is_app write, each may fail
AddStamp(t) ==
    /\ Running(t, "a_stamp")
    /\ \E r \in {SLURM_SUCCESS, SLURM_ERROR} : Return(t, r)
    /\ UNCHANGED <<confVars, cont_id, threadid, lockVars, workerVars,
                   kernelVars, ncalls, endVars>>

\* ------------------------------------------------- proctrack_p_signal
\* lines 313-314 without the EBADF test
KillIsBenignM(k) == k \in {"ok", "ENODATA"}

\* lines 313-314: job_killjid did not fail, or failed with ENODATA or EBADF
KillIsBenign(k) == k \in {"ok", "ENODATA", "EBADF"}

\* line 316 never taken
IsTermSignalM(sig) == FALSE

\* line 316: sig == SIGKILL
IsTermSignal(sig) == sig = SIGKILL

\* lines 307-326
ProctrackSignal(t, id, sig) ==
    /\ CanCall(t)
    /\ ncalls' = ncalls + 1
    /\ LET c0 == [NoCall EXCEPT !.op = "signal", !.id = id, !.sig = sig,
                                !.seen = threadid]
       IN IF threadid = 0
            THEN \E k \in KillOutcomes :
                   /\ pc' = [pc EXCEPT ![t] = "ret"]
                   /\ call' = [call EXCEPT ![t] =
                        [c0 EXCEPT !.nKill = 1, !.kres = k,
                                   !.rc = IF KillIsBenign(k)
                                            THEN SLURM_SUCCESS
                                            ELSE SLURM_ERROR]]
            ELSE IF IsTermSignal(sig)
              THEN /\ pc' = [pc EXCEPT ![t] = "r_check"]
                   /\ call' = [call EXCEPT ![t] = c0]
              ELSE /\ pc' = [pc EXCEPT ![t] = "ret"]
                   /\ call' = [call EXCEPT ![t] = c0]
    /\ UNCHANGED <<confVars, cont_id, threadid, lockVars, workerVars,
                   kernelVars, endVars>>

\* ------------------------------------------------ proctrack_p_destroy
\* line 349 handing the failure of job_waitjid on
DestroyRcM(o) == IF o = "fail" THEN SLURM_ERROR ELSE SLURM_SUCCESS

\* line 349: return SLURM_SUCCESS, whatever job_waitjid said
DestroyRc(o) == SLURM_SUCCESS

\* lines 329-350
ProctrackDestroy(t, id) ==
    /\ CanCall(t)
    /\ ncalls' = ncalls + 1
    /\ LET c0 == [NoCall EXCEPT !.op = "destroy", !.id = id, !.seen = threadid]
       IN IF threadid = 0
            THEN \E o \in WaitOutcomes :
                   call' = [call EXCEPT ![t] =
                              [c0 EXCEPT !.nWait = 1, !.kres = o,
                                         !.rc = DestroyRc(o)]]
            ELSE call' = [call EXCEPT ![t] = c0]
    /\ pc' = [pc EXCEPT ![t] = "ret"]
    /\ UNCHANGED <<confVars, cont_id, threadid, lockVars, workerVars,
                   kernelVars, endVars>>

\* --------------------------------------------------- proctrack_p_wait
\* line 388 with a failure of job_waitjid not handed on
WaitRcM(o) == SLURM_SUCCESS

\* lines 387-391: SLURM_ERROR if job_waitjid returned (jid_t)-1
WaitRc(o) == IF o = "fail" THEN SLURM_ERROR ELSE SLURM_SUCCESS

\* lines 382-392
ProctrackWait(t, id) ==
    /\ CanCall(t)
    /\ ncalls' = ncalls + 1
    /\ LET c0 == [NoCall EXCEPT !.op = "wait", !.id = id, !.seen = threadid]
       IN IF threadid = 0
            THEN \E o \in WaitOutcomes :
                   call' = [call EXCEPT ![t] =
                              [c0 EXCEPT !.nWait = 1, !.kres = o,
                                         !.rc = WaitRc(o)]]
            ELSE call' = [call EXCEPT ![t] = c0]
    /\ pc' = [pc EXCEPT ![t] = "ret"]
    /\ UNCHANGED <<confVars, cont_id, threadid, lockVars, workerVars,
                   kernelVars, endVars>>

\* ----------------------------------------------- proctrack_p_get_pids
\* lines 394-403, 433-443: job_getpidcnt, and the empty result if it is not
\* positive
ProctrackGetPids(t, id) ==
    /\ CanCall(t)
    /\ ncalls' = ncalls + 1
    /\ \E n \in PidCntResults(id) :
         LET c0 == [NoCall EXCEPT !.op = "get_pids", !.id = id, !.cnt = n]
         IN IF n > 0
              THEN /\ pc' = [pc EXCEPT ![t] = "g_list"]
                   /\ call' = [call EXCEPT ![t] = c0]
              ELSE /\ pc' = [pc EXCEPT ![t] = "ret"]
                   /\ call' = [call EXCEPT ![t] =
                                 [c0 EXCEPT !.out = "null", !.npids = 0]]
    /\ UNCHANGED <<confVars, cont_id, threadid, lockVars, workerVars,
                   kernelVars, endVars>>

\* lines 420-423 taking every failure of job_getpidlist for an error
GetPidsRcM(o) == SLURM_ERROR

\* lines 413, 420-423: ENODATA is not an error
GetPidsRc(o) == IF o # "ENODATA" THEN SLURM_ERROR ELSE SLURM_SUCCESS

\* lines 409-432: job_getpidlist and its result
GetPidList(t) ==
    /\ Running(t, "g_list")
    /\ \E o \in PidListOutcomes(call[t].id) :
         IF o = "list"
           THEN call' = [call EXCEPT ![t].lres = o, ![t].out = "list",
                                     ![t].pids = MembersOf(call[t].id),
                                     ![t].npids =
                                        Cardinality(MembersOf(call[t].id)),
                                     ![t].rc = SLURM_SUCCESS]
           ELSE call' = [call EXCEPT ![t].lres = o, ![t].out = "null",
                                     ![t].npids = 0,
                                     ![t].rc = GetPidsRc(o)]
    /\ pc' = [pc EXCEPT ![t] = "ret"]
    /\ UNCHANGED <<confVars, cont_id, threadid, lockVars, workerVars,
                   kernelVars, ncalls, endVars>>

\* --------------------------------------------------------------- fini
\* lines 148-150: the call, up to _end_container_thread()
ProctrackFini(t) ==
    /\ CanCall(t)
    /\ ncalls' = ncalls + 1
    /\ pc' = [pc EXCEPT ![t] = "r_check"]
    /\ call' = [call EXCEPT ![t] = [NoCall EXCEPT !.op = "fini"]]
    /\ UNCHANGED <<confVars, cont_id, threadid, lockVars, workerVars,
                   kernelVars, endVars>>

\* a mutex that is held or a condition that is waited on cannot be destroyed:
\* slurm_mutex_destroy ends the process with fatal(), or the call goes through
DestroyOutcomes ==
    IF thread_mutex # Free \/ notify_mutex # Free \/ waiters # {}
      THEN {"abort", "destroyed"} ELSE {"destroyed"}

\* lines 152-157: destroy both mutexes and the condition
FiniDestroy(t) ==
    /\ Running(t, "f_destroy")
    /\ \E o \in DestroyOutcomes :
         /\ aborted' = (o = "abort")
         /\ finalized' = TRUE
    /\ Return(t, SLURM_SUCCESS)
    /\ UNCHANGED <<confVars, cont_id, threadid, lockVars, workerVars,
                   kernelVars, ncalls>>

\* ------------------------------------------------------------- Next
WorkerStep(w) ==
    \/ WorkerJobCreate(w)
    \/ WorkerLock(w)
    \/ WorkerSignal(w)
    \/ WorkerCheck(w)
    \/ WorkerWake(w)
    \/ WorkerUnlock(w)
    \/ WorkerReturn(w)

CreateStep(t) ==
    \/ \E s \in Steps : ProctrackCreate(t, s)
    \/ CreateLockThread(t)
    \/ CreateHadLock(t)
    \/ CreateHadCondWait(t)
    \/ CreateLockNotify(t)
    \/ CreateSpawn(t)
    \/ CreateCondWait(t)
    \/ CreateWake(t)
    \/ CreateUnlock(t)

RetireStep(t) ==
    \/ RetireCheck(t)
    \/ RetireLockThread(t)
    \/ RetireLockNotify(t)
    \/ RetireSignal(t)
    \/ RetireJoin(t)
    \/ RetireClear(t)

AddStep(t) ==
    \/ \E s \in Steps, p \in Pids : ProctrackAdd(t, s, p)
    \/ AddAttach(t)
    \/ AddHasPid(t)
    \/ AddDetach(t)
    \/ AddStamp(t)

\* the container ids a caller has at hand
KnownIds == {cont_id[s] : s \in Steps}

OtherStep(t) ==
    \/ \E id \in KnownIds, sig \in Signals : ProctrackSignal(t, id, sig)
    \/ \E id \in KnownIds : ProctrackDestroy(t, id)
    \/ ProctrackFini(t)
    \/ FiniDestroy(t)
    \/ \E id \in KnownIds : ProctrackWait(t, id)
    \/ \E id \in KnownIds : ProctrackGetPids(t, id)
    \/ GetPidList(t)

Next ==
    \/ \E w \in Workers : WorkerStep(w)
    \/ \E t \in Callers : CreateStep(t)
    \/ \E t \in Callers : RetireStep(t)
    \/ \E t \in Callers : AddStep(t)
    \/ \E t \in Callers : OtherStep(t)

Spec == Init /\ [][Next]_vars

SeqSpec == InitSeq /\ [][Next]_vars

\* a thread that is inside a call keeps running; nobody has to start a call
CallerProgress(t) ==
    \/ CreateLockThread(t) \/ CreateHadLock(t) \/ CreateHadCondWait(t)
    \/ CreateLockNotify(t) \/ CreateSpawn(t) \/ CreateCondWait(t)
    \/ CreateWake(t) \/ CreateUnlock(t)
    \/ RetireStep(t)
    \/ AddAttach(t) \/ AddHasPid(t) \/ AddDetach(t) \/ AddStamp(t)
    \/ FiniDestroy(t) \/ GetPidList(t)

FairSpec ==
    /\ Spec
    /\ \A t \in Callers : WF_vars(CallerProgress(t))
    /\ \A w \in Workers : WF_vars(WorkerStep(w))

\* the thread path alone (proctrack_forked not set), no step with a container
\* yet, pid 200 sitting in a container of somebody else
InitThreadPath ==
    /\ InitCommon
    /\ active = Callers
    /\ ~proctrack_forked
    /\ member[200] = ForeignJid
    /\ cont_id = [s \in Steps |-> 0]

\* FairSpec on the thread path
FairThreadSpec ==
    /\ InitThreadPath /\ [][Next]_vars
    /\ \A t \in Callers : WF_vars(CallerProgress(t))
    /\ \A w \in Workers : WF_vars(WorkerStep(w))

\* ============================================================ properties

\* worker threads that were created and not yet joined
PendingWorkers == {w \in Workers : wpc[w] # "unborn" /\ w \notin joined}

\* C1: in every reachable state at most one creation thread has been spawned
\* and not yet joined; hence no create spawns one while an earlier one is
\* still un-joined.
C1_AtMostOnePendingWorker == Cardinality(PendingWorkers) <= 1

\* a second worker runs after the first one was joined
C1_Witness ==
    /\ nworkers = 2 /\ 1 \in joined
    /\ 2 \notin joined /\ wpc[2] = "w_wait"

\* C2: a create that found another step's worker pending and waits for it
\* returns in the end, once the retirement of that worker has been asked for.
C2_SecondCreateProceeds ==
    \A t \in Callers : \A u \in Callers \ {t} :
        ( /\ pc[t] = "c_had_wait"
          /\ threadid # 0
          /\ warg[threadid] # call[t].step
          /\ pc[u] \in {"r_check", "r_lock_thread"} )
        ~> (pc[t] = "ret")

\* Why the wait of line 196 never ends, whatever calls are still to come: the
\* waiting create holds thread_mutex, and every slurm_cond_signal is made
\* either by _end_container_thread after it took thread_mutex or by a worker
\* whose creator holds thread_mutex until that signal has woken it.
HadWaitNeverSignalled ==
    \A t \in Callers :
        pc[t] = "c_had_wait" =>
          /\ t \in waiters /\ thread_mutex = t
          /\ \A u \in Callers : pc[u] \notin {"r_lock_notify", "r_signal"}
          /\ \A w \in Workers : wpc[w] \notin {"w_create", "w_lock", "w_signal"}

\* C3 as stated: after create succeeded, an attach that returns success leaves
\* the pid in the step's container, on the worker path and on the fork path.
C3_CreateThenAttach ==
    \A t \in Callers :
        ( /\ pc[t] = "ret" /\ call[t].op = "add"
          /\ call[t].rc = SLURM_SUCCESS
          /\ cont_id[call[t].step] \notin {0, JidFail} )
        => /\ Find(call[t].pid) = cont_id[call[t].step]
           /\ HasPid(cont_id[call[t].step], call[t].pid)

\* C3 amended: the same on the worker-thread path; on the fork path attach
\* makes no platform call and leaves the kernel membership as it was.
C3_CreateThenAttachWorkerPath ==
    /\ [](\A t \in Callers :
            ( /\ ~proctrack_forked
              /\ pc[t] = "ret" /\ call[t].op = "add"
              /\ call[t].rc = SLURM_SUCCESS
              /\ cont_id[call[t].step] \notin {0, JidFail} )
            => /\ Find(call[t].pid) = cont_id[call[t].step]
               /\ HasPid(cont_id[call[t].step], call[t].pid))
    /\ [][\A t \in Callers :
            (proctrack_forked /\ AddAttach(t))
            => (member' = member /\ call'[t].nAttach = 0)]_vars

C3_Witness ==
    \E t \in Callers :
        /\ ~proctrack_forked
        /\ pc[t] = "ret" /\ call[t].op = "add" /\ call[t].rc = SLURM_SUCCESS
        /\ call[t].a1 = "ok"
        /\ cont_id[call[t].step] \notin {0, JidFail}
        /\ Find(call[t].pid) = cont_id[call[t].step]

\* C4: create on a step whose container id is not zero (the failure value
\* included) returns success at once: no job_create, no thread, no lock, and
\* the container id and the thread handle stay as they are.
C4_CreateIsNoOpWhenIdSet ==
    [][\A t \in Callers : \A s \in Steps :
         (ProctrackCreate(t, s) /\ cont_id[s] # 0)
         => /\ pc'[t] = "ret"
            /\ call'[t].rc = SLURM_SUCCESS
            /\ UNCHANGED <<cont_id, threadid, lockVars, workerVars,
                           kernelVars>>]_vars

C4_Witness ==
    \E t \in Callers :
        /\ pc[t] = "ret" /\ call[t].op = "create"
        /\ call[t].cont0 # 0
        /\ cont_id[call[t].step] = call[t].cont0

\* C6: when job_attachpid failed with EINVAL and the pid is in the target
\* container, attach returns success, having made one attach attempt and no
\* detach.
C6_AlreadyAttachedIsSuccess ==
    [][\A t \in Callers :
         ( /\ AddHasPid(t)
           /\ member[call[t].pid] # 0
           /\ member[call[t].pid] = cont_id[call[t].step] )
         => /\ pc'[t] = "ret"
            /\ call'[t].rc = SLURM_SUCCESS
            /\ call'[t].nDetach = 0
            /\ call'[t].nAttach = 1
            /\ call'[t].a1 = "EINVAL"
            /\ member' = member]_vars

C6_Witness ==
    \E t \in Callers :
        /\ pc[t] = "ret" /\ call[t].op = "add"
        /\ call[t].a1 = "EINVAL" /\ call[t].hp = "yes"
        /\ call[t].rc = SLURM_SUCCESS
        /\ member[call[t].pid] = cont_id[call[t].step]

RetirePcs == {"r_check", "r_lock_thread", "r_lock_notify", "r_signal",
              "r_join", "r_clear"}

\* C7: one attach call makes at most two attach attempts and one detach; the
\* second attempt follows an EINVAL failure, a negative has_pid and a detach
\* that worked; a second attempt that works goes on to the retire, one that
\* fails ends the call with an error; any other failure of the first attempt
\* and a failed detach end the call with an error and no retry.
C7_RetryBounded ==
    \A t \in Callers :
        call[t].op = "add" =>
          /\ call[t].nAttach <= 2
          /\ call[t].nDetach <= 1
          /\ call[t].nAttach = 2 =>
               (call[t].a1 = "EINVAL" /\ call[t].hp = "no" /\ call[t].det = "ok")
          /\ call[t].a2 = "ok" => pc[t] \in RetirePcs \cup {"a_stamp", "ret"}
          /\ call[t].a2 \in {"EINVAL", "EOTHER"} =>
               /\ pc[t] = "ret" /\ call[t].rc = SLURM_ERROR
               /\ call[t].nAttach = 2 /\ call[t].nDetach = 1
          /\ call[t].a1 = "EOTHER" =>
               /\ pc[t] = "ret" /\ call[t].rc = SLURM_ERROR
               /\ call[t].nAttach = 1 /\ call[t].nDetach = 0
          /\ call[t].det = "fail" =>
               /\ pc[t] = "ret" /\ call[t].rc = SLURM_ERROR
               /\ call[t].nAttach = 1

C7_Witness ==
    \E t \in Callers :
        /\ pc[t] = "ret" /\ call[t].op = "add"
        /\ call[t].a1 = "EINVAL" /\ call[t].det = "ok" /\ call[t].a2 = "ok"
        /\ call[t].nAttach = 2 /\ call[t].nDetach = 1
        /\ call[t].rc = SLURM_SUCCESS

\* C5: once an attach has attached its pid and goes on to retire the worker
\* that is pending, that worker is joined and the handle cleared in the end.
C5_WorkerEventuallyJoined ==
    \A t \in Callers : \A w \in Workers :
        ( /\ call[t].op = "add" /\ pc[t] = "r_check"
          /\ call[t].nAttach > 0
          /\ threadid = w )
        ~> (w \in joined /\ threadid # w)

\* C8: signal(id, SIGKILL) that finds a worker pending never calls
\* job_killjid, and when it returns it returns success with that worker
\* joined and its handle gone.
C8_SigkillRetiresPendingWorker ==
    \A t \in Callers :
        ( /\ call[t].op = "signal" /\ call[t].sig = SIGKILL
          /\ call[t].seen # 0 )
        => /\ call[t].nKill = 0
           /\ call[t].rc = SLURM_SUCCESS
           /\ pc[t] = "ret" =>
                (call[t].seen \in joined /\ threadid # call[t].seen)

C8_Witness ==
    \E t \in Callers :
        /\ pc[t] = "ret" /\ call[t].op = "signal"
        /\ call[t].sig = SIGKILL /\ call[t].seen # 0
        /\ call[t].seen \in joined /\ threadid = 0

\* C9: signal returns error exactly when no worker was pending and
\* job_killjid failed with something other than ENODATA and EBADF; with a
\* worker pending and a signal other than SIGKILL it delivers nothing, leaves
\* the worker as it is and returns success.
C9_SignalResult ==
    /\ [](\A t \in Callers :
            (pc[t] = "ret" /\ call[t].op = "signal")
            => ( call[t].rc = SLURM_ERROR
                 <=> ( /\ call[t].seen = 0
                       /\ call[t].nKill = 1
                       /\ call[t].kres \notin {"ok", "ENODATA", "EBADF"} ) ))
    /\ [][\A t \in Callers : \A id \in (-1)..MaxJids : \A sig \in Signals :
            (ProctrackSignal(t, id, sig) /\ threadid # 0 /\ sig # SIGKILL)
            => /\ pc'[t] = "ret"
               /\ call'[t].rc = SLURM_SUCCESS
               /\ call'[t].nKill = 0
               /\ UNCHANGED <<cont_id, threadid, lockVars, workerVars,
                              kernelVars>>]_vars

C9_Witness ==
    \E t \in Callers : \E u \in Callers \ {t} :
        /\ pc[t] = "ret" /\ call[t].op = "signal"
        /\ call[t].rc = SLURM_ERROR /\ call[t].kres = "EOTHER"
        /\ pc[u] = "ret" /\ call[u].op = "signal"
        /\ call[u].sig = OtherSig /\ call[u].seen # 0
        /\ threadid = call[u].seen /\ wpc[threadid] = "w_wait"

\* C10: destroy returns success whatever job_waitjid said, does not call
\* job_waitjid while a worker is pending, and leaves the thread handle alone.
C10_DestroyAlwaysSucceeds ==
    /\ [](\A t \in Callers :
            call[t].op = "destroy"
            => /\ pc[t] = "ret"
               /\ call[t].rc = SLURM_SUCCESS
               /\ call[t].seen # 0 => call[t].nWait = 0)
    /\ [][\A t \in Callers : \A id \in (-1)..MaxJids :
            ProctrackDestroy(t, id)
            => /\ threadid' = threadid
               /\ call'[t].rc = SLURM_SUCCESS
               /\ (threadid # 0 => call'[t].nWait = 0)]_vars

C10_Witness ==
    \E t \in Callers :
        /\ pc[t] = "ret" /\ call[t].op = "destroy"
        /\ call[t].nWait = 1 /\ call[t].kres = "fail"
        /\ call[t].rc = SLURM_SUCCESS

\* C11: wait with a worker pending returns success at once without calling
\* job_waitjid; with no worker pending it calls job_waitjid once and returns
\* error exactly when job_waitjid failed.
C11_WaitResult ==
    [][\A t \in Callers : \A id \in KnownIds :
          ProctrackWait(t, id)
          => /\ pc'[t] = "ret"
             /\ threadid # 0 => /\ call'[t].nWait = 0
                                /\ call'[t].rc = SLURM_SUCCESS
             /\ threadid = 0 => /\ call'[t].nWait = 1
                                /\ call'[t].rc = SLURM_ERROR
                                   <=> call'[t].kres = "fail"
                                /\ call'[t].rc \in {SLURM_ERROR, SLURM_SUCCESS}
             /\ UNCHANGED <<cont_id, threadid, lockVars, workerVars,
                            kernelVars>>]_vars

C11_Witness ==
    \E t \in Callers : \E u \in Callers \ {t} :
        /\ pc[t] = "ret" /\ call[t].op = "wait"
        /\ call[t].seen # 0 /\ call[t].nWait = 0
        /\ threadid = call[t].seen /\ wpc[threadid] = "w_wait"
        /\ pc[u] = "ret" /\ call[u].op = "wait"
        /\ call[u].seen = 0 /\ call[u].rc = SLURM_ERROR

\* C12: get_pids returns success with the null list and count 0 when
\* job_getpidcnt reports no member, and also when the count was positive but
\* job_getpidlist then fails with ENODATA; it returns error only when
\* job_getpidlist fails with another errno, and then too the outputs are the
\* null list and count 0.
C12_GetPidsResult ==
    /\ [](\A t \in Callers :
            (pc[t] = "ret" /\ call[t].op = "get_pids")
            => /\ call[t].rc = SLURM_ERROR <=> call[t].lres = "EOTHER"
               /\ call[t].rc \in {SLURM_ERROR, SLURM_SUCCESS}
               /\ call[t].cnt <= 0
                    => /\ call[t].lres = "none"
                       /\ call[t].out = "null" /\ call[t].npids = 0
               /\ call[t].lres \in {"ENODATA", "EOTHER"}
                    => /\ call[t].cnt > 0
                       /\ call[t].out = "null" /\ call[t].npids = 0
               /\ call[t].out = "list"
                    => /\ call[t].lres = "list"
                       /\ call[t].npids = Cardinality(call[t].pids)
                       /\ call[t].npids > 0)
    /\ [][\A t \in Callers :
            (GetPidList(t) /\ MembersOf(call[t].id) = {})
            => /\ call'[t].out = "null" /\ call'[t].npids = 0
               /\ call'[t].rc = SLURM_SUCCESS
                  <=> call'[t].lres = "ENODATA"]_vars
    /\ [][\A t \in Callers : \A id \in KnownIds :
            (ProctrackGetPids(t, id) /\ MembersOf(id) = {})
            => /\ pc'[t] = "ret"
               /\ call'[t].rc = SLURM_SUCCESS
               /\ call'[t].out = "null" /\ call'[t].npids = 0]_vars

C12_Witness ==
    \E t \in Callers :
        /\ pc[t] = "ret" /\ call[t].op = "get_pids"
        /\ call[t].cnt > 0 /\ call[t].lres = "ENODATA"
        /\ call[t].rc = SLURM_SUCCESS
        /\ call[t].out = "null" /\ call[t].npids = 0

\* C13: create returns SLURM_SUCCESS on every path, a failed job_create
\* included; on the thread path the caller is past its wait only after the
\* thread has stored its result, so the step's cont_id is then never 0: it is
\* what job_create gave the thread, a jid or (jid_t)-1.
C13_CreateReturnsAfterResult ==
    \A t \in Callers :
        call[t].op = "create"
        => /\ pc[t] = "ret" => call[t].rc = SLURM_SUCCESS
           /\ ( /\ pc[t] \in {"c_unlock", "ret"}
                /\ ~proctrack_forked /\ call[t].cont0 = 0 )
              => /\ cont_id[call[t].step] # 0
                 /\ \E w \in Workers :
                      /\ warg[w] = call[t].step
                      /\ wpc[w] \notin {"unborn", "w_create", "w_lock",
                                        "w_signal"}
                      /\ wlog[w].nsig = 1
                      /\ wlog[w].jid = cont_id[call[t].step]
                      /\ wlog[w].jid \in (1..MaxJids) \cup {JidFail}

C13_Witness ==
    \E t \in Callers :
        /\ pc[t] = "ret" /\ call[t].op = "create"
        /\ ~proctrack_forked /\ call[t].cont0 = 0
        /\ call[t].rc = SLURM_SUCCESS
        /\ cont_id[call[t].step] = JidFail

\* C14: however the calls of _end_container_thread from add, signal(SIGKILL)
\* and fini interleave, pthread_join is only ever called on the handle of a
\* thread that was started and has not been joined yet, never on a cleared
\* (zero) handle.
C14_JoinOnlyLiveHandle ==
    \A t \in Callers :
        pc[t] = "r_join"
        => /\ threadid # 0
           /\ threadid \notin joined
           /\ wpc[threadid] # "unborn"

\* the places of proctrack_p_create between the test of line 193 having found
\* no thread and the return: the creation handshake
HandshakePcs == {"c_lock_notify", "c_spawn", "c_condwait", "c_wait",
                 "c_unlock"}

\* one create in its handshake, one _end_container_thread that finds or has
\* found a thread (line 125) under way in the other thread, and no further
\* call to come
HandshakeMeetsRetire(t, u) ==
    /\ call[t].op = "create" /\ pc[t] \in HandshakePcs
    /\ pc[u] \in RetirePcs
    /\ pc[u] = "r_check" => threadid # 0
    /\ ncalls = MaxCalls

\* C15: thread_mutex is always taken before notify_mutex (nobody asks for
\* thread_mutex while holding notify_mutex), and an _end_container_thread
\* running against a creation handshake never deadlocks: with one create, one
\* retire and the worker, the create returns and the retire's join is done.
C15_LockOrderNoDeadlock ==
    /\ [](\A t \in Callers :
            /\ pc[t] \in {"c_lock_thread", "r_lock_thread"}
                 => notify_mutex # t /\ thread_mutex # t
            /\ notify_mutex = t => thread_mutex = t)
    /\ \A t \in Callers : \A u \in Callers \ {t} :
          HandshakeMeetsRetire(t, u)
          ~> ( /\ pc[t] = "ret" /\ pc[u] \notin RetirePcs
               /\ threadid = 0
               /\ \A w \in Workers : wpc[w] # "unborn" => w \in joined )

C15_Witness ==
    \E t \in Callers : \E u \in Callers \ {t} :
        /\ HandshakeMeetsRetire(t, u)
        /\ pc[t] = "c_wait" /\ pc[u] = "r_lock_thread"
        /\ thread_mutex = t /\ threadid # 0

\* the places of _create_container_thread after the slurm_cond_wait of
\* line 116, or after the branch that skips it
PastSecondWait == {"w_unlock", "w_return", "exited"}

\* C16: a thread whose job_create succeeded signals once and then is past its
\* second wait only if an _end_container_thread signal woke it from that wait,
\* so it has not exited before; a thread whose job_create failed signals once
\* and goes on to exit without ever waiting.
C16_WorkerWaitsForRetire ==
    \A w \in Workers :
        /\ wlog[w].nsig = IF wpc[w] \in {"unborn", "w_create", "w_lock",
                                         "w_signal"} THEN 0 ELSE 1
        /\ (wlog[w].jid \in 1..MaxJids /\ wpc[w] \in PastSecondWait)
             => wlog[w].woke = "retire"
        /\ wlog[w].woke # "handshake"
        /\ wlog[w].jid = JidFail
             => /\ wpc[w] # "w_wait" /\ w \notin waiters
                /\ wlog[w].woke = "none"

C16_Witness ==
    \E w \in Workers : \E v \in Workers \ {w} :
        /\ wlog[w].jid \in 1..MaxJids /\ wpc[w] = "exited"
        /\ wlog[w].woke = "retire"
        /\ wlog[v].jid = JidFail /\ wpc[v] = "exited"
        /\ wlog[v].nsig = 1

\* C17: an attach retires the creation thread only of the step it attached a
\* process to: when proctrack_p_add signals a waiting creation thread, that
\* thread is the one that created the container of the step of this add, so
\* no container is left without a member before a process was attached to it.
C17_AddRetiresOwnStepsWorker ==
    \A t \in Callers :
        ( /\ pc[t] = "r_signal" /\ call[t].op = "add"
          /\ threadid # 0 /\ threadid \in waiters )
        => /\ warg[threadid] = call[t].step
           /\ cont_id[call[t].step] = wlog[threadid].jid

\* C18: when proctrack_p_add has returned SLURM_SUCCESS no creation thread is
\* pending: the handle is zero and every thread that was started is joined,
\* also on the path where the pid was found in the container already.
C18_AddSuccessLeavesNoWorker ==
    \A t \in Callers :
        ( /\ pc[t] = "ret" /\ call[t].op = "add"
          /\ call[t].rc = SLURM_SUCCESS )
        => /\ threadid = 0
           /\ PendingWorkers = {}

\* C19: when job_create fails in the creation thread, the pending creation is
\* gone as soon as create has returned: with (jid_t)-1 in the step's cont_id
\* no thread handle is recorded any more, so a following signal, wait or
\* destroy finds no thread pending.
C19_FailedCreateLeavesNoHandle ==
    \A t \in Callers :
        ( /\ pc[t] = "ret" /\ call[t].op = "create"
          /\ ~proctrack_forked /\ call[t].cont0 = 0
          /\ cont_id[call[t].step] = JidFail )
        => threadid = 0

\* C20: an add that returns error because job_attachpid failed (an errno that
\* is not retried, a failed detach, or a failed retry) has not touched the
\* creation thread: its steps up to that return leave threadid, both mutexes,
\* the condition variable, the threads and cont_id as they were, and
\* _end_container_thread is entered only after a job_attachpid that succeeded
\* or was skipped because proctrack_forked is set.
C20_FailedAttachLeavesWorker ==
    /\ [][\A t \in Callers :
            ( \/ \E s \in Steps : \E p \in Pids : ProctrackAdd(t, s, p)
              \/ AddAttach(t) \/ AddHasPid(t) \/ AddDetach(t) )
            => /\ UNCHANGED <<cont_id, threadid, lockVars, workerVars>>
               /\ pc'[t] \in RetirePcs
                    => \/ proctrack_forked /\ call'[t].nAttach = 0
                       \/ call'[t].a1 = "ok" \/ call'[t].a2 = "ok"]_vars
    /\ [](\A t \in Callers :
            (call[t].op = "add" /\ pc[t] \in RetirePcs \cup {"a_stamp"})
            => \/ proctrack_forked /\ call[t].nAttach = 0
               \/ call[t].a1 = "ok" \/ call[t].a2 = "ok")
    /\ [](\A t \in Callers :
            ( /\ pc[t] = "ret" /\ call[t].op = "add"
              /\ call[t].nAttach > 0
              /\ call[t].a1 # "ok" /\ call[t].a2 # "ok" )
            => \/ call[t].rc = SLURM_ERROR
               \/ call[t].rc = SLURM_SUCCESS /\ call[t].hp = "yes")

C20_Witness ==
    \E t \in Callers :
        /\ pc[t] = "ret" /\ call[t].op = "add"
        /\ call[t].rc = SLURM_ERROR /\ call[t].a1 = "EOTHER"
        /\ threadid # 0 /\ threadid \in waiters
        /\ wpc[threadid] = "w_wait" /\ wlog[threadid].woke = "none"
        /\ warg[threadid] = call[t].step

====
